---- MODULE Spec2Model ----
(***************************************************************************)
(* The workflow step scheduler of autogen-mem0:                            *)
(*   ParallelWorkflowExecutor (anthropic_autogen/workflow/parallel.py),    *)
(*   WorkflowManager          (anthropic-autogen/workflow/manager.py),     *)
(*   WorkflowStateStore       (anthropic-autogen/workflow/persistence.py), *)
(*   TaskManager              (anthropic_autogen/core/task.py).            *)
(* One asyncio event loop runs the scheduler coroutine and one asyncio     *)
(* task per launched step; an action is what one of them does between two  *)
(* suspension points.                                                      *)
(***************************************************************************)
EXTENDS Integers, Sequences, FiniteSets, TLC

(* ---------------------------- bounds ---------------------------------- *)
\* how many times the caller calls execute_workflow on the manager, directly or
\* through resume_workflow
MaxCalls == 2
\* max_parallel is drawn from 1..MaxParallelBound
MaxParallelBound == 2
\* how many tasks the caller creates in the TaskManager
MaxTasks == 2
\* how many tasks the caller creates where chains of dependents are cancelled
MaxCascadeTasks == 3
\* how many tasks the caller creates where state callbacks are registered
MaxCallbackTasks == 2
\* how many of the tasks are created with a timeout
MaxTimedTasks == 1
\* TaskContext.max_retries of the tasks of the model
MaxRetries == 2
\* how many state callbacks the caller registers
MaxCallbacks == 2
\* how many steps a caller hands to ParallelExecutor.execute_workflow at most
MaxSteps == 3

(* ---------------------------- values ---------------------------------- *)
None == "None"
\* load_state's None, and a workflow id without a state file
NoState == [status |-> None]
NoFile == [status |-> "NotFound"]
WorkflowId == "w1"
WorkflowIds == {"w1", "w2"}
StepOrder == <<"A", "B", "C", "D">>
EmptyMap == <<>>

Restrict(f, S) == [x \in S |-> f[x]]
Remove(f, k) == [x \in DOMAIN f \ {k} |-> f[x]]
Put(f, k, v) == (k :> v) @@ f
SetToSeq(S) == SelectSeq(StepOrder, LAMBDA s : s \in S)
\* every order in which the elements of a set can be iterated
Orders(S) ==
  {f \in [1..Cardinality(S) -> S] : \A i, j \in 1..Cardinality(S) : f[i] = f[j] => i = j}

\* the executor is deterministic: the output of a step is a function of the step
Output(s) == <<"out", s>>
\* exceptions: the type, and the step whose execution raised it
NoExc == [type |-> None, step |-> None]
StepError(s) == [type |-> "RuntimeError", step |-> s]
KeyError == [type |-> "KeyError", step |-> None]
CancelledError == [type |-> "CancelledError", step |-> None]
\* str(e)
Str(e) == <<"str", e.type, e.step>>
\* datetime.now(), and what json.dump(..., default=str) makes of a datetime
Datetime == "datetime"
DatetimeStr == "datetime-str"

(* ----------------------- workflow definitions ------------------------- *)
\* a step list is given as the map step id -> declared dependencies
WfDiamond == [A |-> {}, B |-> {"A"}, C |-> {"A"}, D |-> {"B", "C"}]
WfFlat == [A |-> {}, B |-> {}, C |-> {}]
WfChain == [A |-> {}, B |-> {"A"}]
WfCycle == [A |-> {"B"}, B |-> {"A"}]
WfPartCycle == [A |-> {}, B |-> {"A", "C"}, C |-> {"B"}]
WfFork == [A |-> {}, B |-> {}, C |-> {"A"}]
WfUnknownDep == [A |-> {}, B |-> {"Z"}]
Workflows == {WfDiamond, WfFlat, WfChain, WfCycle, WfPartCycle, WfUnknownDep}
\* the workflows of the liveness specification
\* workflows submitted by the callers that cancel tokens or bring their own state
CallerWorkflows == {WfFork, WfChain}
LiveWorkflows == {WfDiamond, WfChain}

DeclaredDeps(w) == \A s \in DOMAIN w : w[s] \subseteq DOMAIN w
RECURSIVE Reach(_, _, _)
Reach(w, S, n) ==
  IF n = 0 THEN S
  ELSE Reach(w, S \cup UNION {w[s] \cap DOMAIN w : s \in S}, n - 1)
\* the steps s depends on, directly or transitively
Ancestors(w, s) == Reach(w, w[s] \cap DOMAIN w, Cardinality(DOMAIN w))
Acyclic(w) == \A s \in DOMAIN w : s \notin Ancestors(w, s)

VARIABLES
  workflow,       \* the WorkflowDefinition the caller submits
  max_parallel,   \* ParallelWorkflowExecutor.max_parallel
  permits,        \* value of ParallelWorkflowExecutor._semaphore
  tasks,          \* the asyncio tasks created so far: [run, step, status, cancel]
  running_tasks,  \* ParallelWorkflowExecutor._running_tasks: step id -> task
  graph,          \* execute_parallel's local graph
  results,        \* execute_parallel's local results
  pc,             \* "idle" | "wait" (inside asyncio.wait) | "ended"
  wfstate,        \* the WorkflowState object of each execute_workflow call
  given,          \* the step list each execute_workflow call was given
  loaded,         \* the WorkflowState resume_workflow loaded for each call
  rets,           \* how each execute_workflow call ended
  store,          \* WorkflowStateStore: workflow id -> JSON document
  resumeRet,      \* what the last resume_workflow did
  firstFail,      \* per call, the first step whose execution raised
  token,          \* the caller cancelled the call's cancellation_token
  managed,        \* per call: made by WorkflowManager, or by a direct caller
  saved,          \* per workflow id, the WorkflowState a caller last saved
  pe,             \* the ParallelExecutor.execute_workflow call and its step tasks
  tm_tasks,       \* TaskManager._tasks: task id -> TaskContext
  state_callbacks,\* TaskManager._state_callbacks: TaskState -> callbacks
  sleeping,       \* per task, the retry_task calls inside asyncio.sleep
  asleepAtCancel, \* per task, the sleeping retry_task calls that saw it cancelled
  expired,        \* the tasks for which now - started_at > timeout
  starts          \* per task, how many times it entered RUNNING

\* the state of the scheduler, the manager and the store
WorkflowVars == <<workflow, max_parallel, permits, tasks, running_tasks, graph, results,
                  pc, wfstate, given, loaded, rets, store, resumeRet, firstFail,
                  token, managed, saved, pe>>
\* the state of the TaskManager
TMVars == <<tm_tasks, state_callbacks, sleeping, asleepAtCancel, expired, starts>>

vars == <<WorkflowVars, TMVars>>

Cur == Len(wfstate)
\* how a call ended: kind is "none" | "return" | "raise"
NoRet == [kind |-> "none", error |-> NoExc, results |-> EmptyMap]
Returned(res) == [kind |-> "return", error |-> NoExc, results |-> res]
Raised(e) == [kind |-> "raise", error |-> e, results |-> EmptyMap]

(* --------------------------- persistence ------------------------------ *)
\* json.dump(state.model_dump(), default=str): every datetime becomes a string
ToJson(st) ==
  [workflow_id |-> st.workflow_id,
   status |-> st.status,
   start_time |-> DatetimeStr,
   end_time |-> IF st.end_time = None THEN None ELSE DatetimeStr,
   completed_steps |->
     [s \in DOMAIN st.completed_steps |->
        [completed_at |-> DatetimeStr, result |-> st.completed_steps[s].result]],
   failed_steps |->
     [s \in DOMAIN st.failed_steps |->
        [failed_at |-> DatetimeStr, error |-> st.failed_steps[s].error]],
   context |-> st.context]

\* WorkflowState.model_validate(json.load(f)): the declared datetime fields are
\* parsed back, the untyped step records are kept as they were read
FromJson(doc) ==
  [workflow_id |-> doc.workflow_id,
   status |-> doc.status,
   start_time |-> Datetime,
   end_time |-> IF doc.end_time = None THEN None ELSE Datetime,
   completed_steps |-> doc.completed_steps,
   failed_steps |-> doc.failed_steps,
   context |-> doc.context]

\* the file is not written
save_state_skipped(st, state) == st

save_state(st, state) == [st EXCEPT ![state.workflow_id] = ToJson(state)]

load_state(st, workflow_id) ==
  IF st[workflow_id].status = "NotFound" THEN NoState ELSE FromJson(st[workflow_id])

(* ------------------------- dependency graph --------------------------- *)
\* the reverse entry is not added
AddDependentSkipped(G, dep_id, step_id) == G

\* the reverse entry is added under any dep_id, as a defaultdict would
AddDependentUnchecked(G, dep_id, step_id) ==
  [G EXCEPT !.dependents =
     Put(@, dep_id, (IF dep_id \in DOMAIN @ THEN @[dep_id] ELSE {}) \cup {step_id})]

\* graph.dependents[dep_id].add(step_id): a dep_id that is no key is a KeyError
AddDependent(G, dep_id, step_id) ==
  IF G.error # NoExc THEN G
  ELSE IF dep_id \notin DOMAIN G.dependents THEN [G EXCEPT !.error = KeyError]
  ELSE [G EXCEPT !.dependents[dep_id] = @ \cup {step_id}]

\* for dep_id in deps
RECURSIVE AddDependents(_, _, _)
AddDependents(G, deps, step_id) ==
  IF deps = {} THEN G
  ELSE LET dep_id == CHOOSE d \in deps : TRUE
       IN AddDependents(AddDependent(G, dep_id, step_id), deps \ {dep_id}, step_id)

\* for step_id, deps in graph.dependencies.items()
RECURSIVE ReverseDependencies(_, _)
ReverseDependencies(G, todo) ==
  IF todo = {} THEN G
  ELSE LET step_id == CHOOSE s \in todo : TRUE
       IN ReverseDependencies(AddDependents(G, G.dependencies[step_id], step_id),
                              todo \ {step_id})

build_dependency_graph(steps) ==
  LET G == ReverseDependencies([error |-> NoExc,
                                steps |-> DOMAIN steps,
                                dependencies |-> steps,
                                dependents |-> [s \in DOMAIN steps |-> {}]],
                               DOMAIN steps)
  IN IF G.error # NoExc THEN [error |-> G.error] ELSE G

\* every step counted as initially ready
InitialReadyAll(g) == g.steps

\* the initial steps of execute_parallel
InitialReady(g) == {s \in g.steps : g.dependencies[s] = {}}

\* a dependent counted as ready as soon as one of its dependencies completed
NewlyReadyAny(g, res, step_id) == g.dependents[step_id]

\* dependents of step_id that became ready, given the results so far
NewlyReady(g, res, step_id) ==
  {d \in g.dependents[step_id] : g.dependencies[d] \subseteq DOMAIN res}

(* ----------------------------- tasks ---------------------------------- *)
Done(t) == t.status \in {"ok", "err", "cancelled"}
TaskIds == 1..Len(tasks)
Executing == {i \in TaskIds : tasks[i].status = "executing"}

\* a semaphore that never blocks
CanAcquireAlways(p) == TRUE

\* async with self._semaphore: a slot is taken only when one is free
CanAcquire(p) == p > 0

\* asyncio.create_task for every ready step, recorded in _running_tasks.  The
\* event loop runs the first step of a new task, up to its first suspension,
\* before it resumes the scheduler: the task enters executor.execute_step when
\* the semaphore has a free slot and waits for the semaphore otherwise.
RECURSIVE LaunchSeq(_, _, _, _, _)
LaunchSeq(order, ts, rt, r, p) ==
  IF order = <<>> THEN [tasks |-> ts, rt |-> rt, permits |-> p]
  ELSE LET s == Head(order)
           free == CanAcquire(p)
           ts1 == Append(ts, [run |-> r, step |-> s,
                              status |-> IF free THEN "executing" ELSE "waiting",
                              cancel |-> FALSE])
       IN LaunchSeq(Tail(order), ts1, Put(rt, s, Len(ts1)), r, IF free THEN p - 1 ELSE p)

\* cancel_all: task.cancel() for every task of _running_tasks that is not done
cancel_all(ts, rt) ==
  [i \in 1..Len(ts) |->
     IF (\E s \in DOMAIN rt : rt[s] = i) /\ ~Done(ts[i])
     THEN [ts[i] EXCEPT !.cancel = TRUE]
     ELSE ts[i]]

(* --------------- execute_parallel: the completed tasks ---------------- *)
\* state.completed_steps[step_id] = {"completed_at": ..., "result": result}
RecordCompleted(completed, step_id, result) ==
  Put(completed, step_id, [completed_at |-> Datetime, result |-> result])

\* the failure is not recorded
RecordFailedDropped(failed, step_id, e) == failed

\* state.failed_steps[step_id] = {"failed_at": ..., "error": str(e)}
RecordFailed(failed, step_id, e) ==
  Put(failed, step_id, [failed_at |-> Datetime, error |-> Str(e)])

\* P: [rt, results, completed, failed, ready, exc, tasks]
RECURSIVE ProcessDone(_, _, _)
ProcessDone(order, g, P) ==
  IF order = <<>> THEN P
  ELSE
    LET step_id == Head(order)
        task == P.tasks[P.rt[step_id]]
        rt1 == Remove(P.rt, step_id)
    IN CASE task.status = "ok" ->
              LET P1 == [P EXCEPT !.rt = rt1,
                                  !.results = Put(@, step_id, Output(step_id)),
                                  !.completed = RecordCompleted(@, step_id, Output(step_id))]
              IN IF step_id \notin g.steps
                 THEN \* graph.dependents[step_id] raises KeyError inside the try
                   [P1 EXCEPT !.failed = RecordFailed(@, step_id, KeyError),
                              !.tasks = cancel_all(P1.tasks, rt1),
                              !.rt = EmptyMap,
                              !.exc = KeyError]
                 ELSE ProcessDone(Tail(order), g,
                        [P1 EXCEPT !.ready = @ \cup NewlyReady(g, P1.results, step_id)])
         [] task.status = "err" ->
              [P EXCEPT !.failed = RecordFailed(@, step_id, StepError(step_id)),
                        !.tasks = cancel_all(P.tasks, rt1),
                        !.rt = EmptyMap,
                        !.exc = StepError(step_id)]
         [] task.status = "cancelled" ->
              \* CancelledError is no Exception: it leaves execute_parallel uncaught
              [P EXCEPT !.rt = rt1, !.exc = CancelledError]

(* ------------- WorkflowManager.execute_workflow: the ending ----------- *)
\* state.status = "completed"; save_state; return results
Completed(state) == [state EXCEPT !.status = "completed", !.end_time = Datetime]

\* except Exception as e: state.status = "failed"; context["error"]; save_state; raise
Failed(state, e) ==
  [state EXCEPT !.status = "failed", !.end_time = Datetime,
                !.context = Put(@, "error", Str(e))]

\* The scheduler runs from the point where the completed tasks were processed
\* to its next suspension (asyncio.wait) or to the end of the call.
\* r: the call; wfs, rs: wfstate and rets with the call's entry; st: the store;
\* mg: the call was made by WorkflowManager.execute_workflow, which marks and
\* saves the state when execute_parallel ends by return or by an Exception.
Advance(P, r, wfs, rs, st, mg) ==
  LET state1 == [wfs[r] EXCEPT !.completed_steps = P.completed, !.failed_steps = P.failed]
      failed == IF mg THEN Failed(state1, P.exc) ELSE state1
      completed == IF mg THEN Completed(state1) ELSE state1
  IN
  /\ results' = P.results
  /\ IF P.exc = CancelledError
     THEN /\ tasks' = P.tasks
          /\ permits' = permits
          /\ running_tasks' = P.rt
          /\ wfstate' = [wfs EXCEPT ![r] = state1]
          /\ store' = st
          /\ rets' = [rs EXCEPT ![r] = Raised(CancelledError)]
          /\ pc' = "ended"
     ELSE IF P.exc # NoExc
     THEN /\ tasks' = P.tasks
          /\ permits' = permits
          /\ running_tasks' = P.rt
          /\ wfstate' = [wfs EXCEPT ![r] = failed]
          /\ store' = IF mg THEN save_state(st, failed) ELSE st
          /\ rets' = [rs EXCEPT ![r] = Raised(P.exc)]
          /\ pc' = "ended"
     ELSE LET L == LaunchSeq(SetToSeq(P.ready), P.tasks, P.rt, r, permits)
          IN /\ tasks' = L.tasks
             /\ permits' = L.permits
             /\ running_tasks' = L.rt
             /\ IF DOMAIN L.rt # {}
                THEN /\ wfstate' = [wfs EXCEPT ![r] = state1]
                     /\ store' = st
                     /\ rets' = rs
                     /\ pc' = "wait"
                ELSE /\ wfstate' = [wfs EXCEPT ![r] = completed]
                     /\ store' = IF mg THEN save_state(st, completed) ELSE st
                     /\ rets' = [rs EXCEPT ![r] = Returned(P.results)]
                     /\ pc' = "ended"

\* WorkflowState(workflow_id=workflow.id, status="running", context=context or {})
NewState(context) ==
  [workflow_id |-> WorkflowId, status |-> "running", start_time |-> Datetime,
   end_time |-> None, completed_steps |-> EmptyMap, failed_steps |-> EmptyMap,
   context |-> context]

\* execute_parallel(steps, context, state, cancellation_token) up to its first
\* suspension.  st: the store when the call starts; ld: the state a resume
\* loaded; mg: the caller is WorkflowManager.execute_workflow.
execute_parallel(steps, state, st, ld, mg) ==
  LET r == Cur + 1
      g == build_dependency_graph(steps)
      wfs == Append(wfstate, state)
      rs == Append(rets, NoRet)
      failed == IF mg THEN Failed(state, g.error) ELSE state
  IN
  /\ given' = Append(given, steps)
  /\ loaded' = Append(loaded, ld)
  /\ firstFail' = Append(firstFail, None)
  /\ managed' = Append(managed, mg)
  /\ token' = FALSE
  /\ graph' = g
  /\ IF g.error # NoExc
     THEN /\ wfstate' = [wfs EXCEPT ![r] = failed]
          /\ store' = IF mg THEN save_state(st, failed) ELSE st
          /\ rets' = [rs EXCEPT ![r] = Raised(g.error)]
          /\ pc' = "ended"
          /\ results' = EmptyMap
          /\ UNCHANGED <<tasks, running_tasks, permits>>
     ELSE Advance([rt |-> running_tasks, results |-> EmptyMap,
                   completed |-> state.completed_steps,
                   failed |-> state.failed_steps, ready |-> InitialReady(g),
                   exc |-> NoExc, tasks |-> tasks], r, wfs, rs, st, mg)

\* WorkflowManager.execute_workflow up to the first suspension of execute_parallel
execute_workflow(steps, context, ld) ==
  LET state == NewState(context)
  IN execute_parallel(steps, state, save_state(store, state), ld, TRUE)

(* ============================ TaskManager ============================= *)
\* TaskState
PENDING == "pending"
RUNNING == "running"
COMPLETED == "completed"
FAILED == "failed"
CANCELLED == "cancelled"
TIMEOUT == "timeout"
TaskStates == {PENDING, RUNNING, COMPLETED, FAILED, CANCELLED, TIMEOUT}

\* a timeout in seconds given to create_task
SomeTimeout == "seconds"
\* a task id that create_task never returned
UnknownId == 0

\* TaskContext(owner, timeout, dependencies): the other fields take their defaults
TaskContext(timeout, dependencies) ==
  [state |-> PENDING, started_at |-> None, completed_at |-> None,
   timeout |-> timeout, dependencies |-> dependencies, token |-> FALSE,
   retries |-> 0, max_retries |-> MaxRetries]

\* TaskContext.is_timed_out, for the task task_id of ts
is_timed_out(ts, task_id) ==
  /\ ts[task_id].timeout # None
  /\ ts[task_id].started_at # None
  /\ task_id \in expired

\* how an operation ended: the ValueError it raised, if any
NoTMError == [type |-> None, msg |-> None]
TMError(msg) == [type |-> "ValueError", msg |-> msg]
NotFound == TMError("not found")
NotPending == TMError("is not in PENDING state")
NotSatisfied == TMError("Dependency not satisfied")
RetryLimit == TMError("exceeded retry limit")
\* the error of a callback, when _notify_state_change lets it through
CallbackError == [type |-> "CallbackError", msg |-> None]

\* an operation in progress: the tasks, the callbacks invoked, the error raised
Op(ts) == [tasks |-> ts, log |-> <<>>, error |-> NoTMError]
Raise(S, e) == [S EXCEPT !.error = e]

\* the error of a callback is not let through
SwallowedNever(behaviour) == FALSE

\* except Exception as e: print(...): the error of a callback is swallowed
Swallowed(behaviour) == TRUE

\* the loop of _notify_state_change over the callbacks of the state
RECURSIVE notify_from(_, _, _, _)
notify_from(callbacks, i, S, task_id) ==
  IF i > Len(callbacks) THEN S
  ELSE LET S1 == [S EXCEPT !.log = Append(@, <<task_id, S.tasks[task_id].state, i>>)]
       IN IF callbacks[i] = "raise" /\ ~Swallowed(callbacks[i])
          THEN Raise(S1, CallbackError)
          ELSE notify_from(callbacks, i + 1, S1, task_id)

notify_state_change(S, task_id) ==
  notify_from(state_callbacks[S.tasks[task_id].state], 1, S, task_id)

\* a dependency is accepted whatever its state
SatisfiedIfKnown(ts, dep_id) == dep_id \in DOMAIN ts

\* a dependency that start_task accepts
Satisfied(ts, dep_id) == dep_id \in DOMAIN ts /\ ts[dep_id].state = COMPLETED

start_task(S, task_id) ==
  IF task_id \notin DOMAIN S.tasks THEN Raise(S, NotFound)
  ELSE IF S.tasks[task_id].state # PENDING THEN Raise(S, NotPending)
  ELSE IF \E dep_id \in S.tasks[task_id].dependencies : ~Satisfied(S.tasks, dep_id)
  THEN Raise(S, NotSatisfied)
  ELSE notify_state_change(
         [S EXCEPT !.tasks[task_id].state = RUNNING,
                   !.tasks[task_id].started_at = Datetime], task_id)

complete_task(S, task_id) ==
  IF task_id \notin DOMAIN S.tasks THEN Raise(S, NotFound)
  ELSE notify_state_change(
         [S EXCEPT !.tasks[task_id].state = COMPLETED,
                   !.tasks[task_id].completed_at = Datetime], task_id)

fail_task(S, task_id) ==
  IF task_id \notin DOMAIN S.tasks THEN Raise(S, NotFound)
  ELSE notify_state_change(
         [S EXCEPT !.tasks[task_id].state = FAILED,
                   !.tasks[task_id].completed_at = Datetime], task_id)

\* no task is found to depend on task_id
get_no_dependent_tasks(ts, task_id) == <<>>

\* get_dependent_tasks: the tasks naming task_id in their dependencies, in the
\* order of the dict (the order of creation)
get_dependent_tasks(ts, task_id) ==
  SelectSeq([i \in 1..Len(ts) |-> i], LAMBDA d : task_id \in ts[d].dependencies)

\* cancel_task, and cancel_dependent_tasks calling it for every dependent
RECURSIVE cancel_task(_, _), cancel_each(_, _)
cancel_task(S, task_id) ==
  IF task_id \notin DOMAIN S.tasks THEN Raise(S, NotFound)
  ELSE LET S1 == notify_state_change(
                   [S EXCEPT !.tasks[task_id].state = CANCELLED,
                             !.tasks[task_id].completed_at = Datetime,
                             !.tasks[task_id].token = TRUE], task_id)
       IN IF S1.error # NoTMError THEN S1
          ELSE cancel_each(S1, get_dependent_tasks(S1.tasks, task_id))
cancel_each(S, dependent_tasks) ==
  IF dependent_tasks = <<>> THEN S
  ELSE LET S1 == cancel_task(S, Head(dependent_tasks))
       IN IF S1.error # NoTMError THEN S1 ELSE cancel_each(S1, Tail(dependent_tasks))

cancel_dependent_tasks(S, task_id) == cancel_each(S, get_dependent_tasks(S.tasks, task_id))

\* the retry limit is not looked at
RetriesLeftAlways(task) == TRUE

\* the negation of "task.retries >= task.max_retries"
RetriesLeft(task) == task.retries < task.max_retries

\* retry_task up to asyncio.sleep(task.retry_delay)
retry_task(S, task_id) ==
  IF task_id \notin DOMAIN S.tasks THEN Raise(S, NotFound)
  ELSE IF ~RetriesLeft(S.tasks[task_id]) THEN Raise(S, RetryLimit)
  ELSE [S EXCEPT !.tasks[task_id].retries = @ + 1,
                 !.tasks[task_id].state = PENDING,
                 !.tasks[task_id].started_at = None,
                 !.tasks[task_id].completed_at = None]

\* TaskManager.__init__
TMInit ==
  /\ tm_tasks = <<>>
  /\ state_callbacks = [s \in TaskStates |-> <<>>]
  /\ sleeping = <<>>
  /\ asleepAtCancel = <<>>
  /\ expired = {}
  /\ starts = <<>>

\* the ids the caller passes: those of the tasks created and one that is unknown
CallerIds == (DOMAIN tm_tasks) \cup {UnknownId}
\* the task enters RUNNING in the operation that turns ts into ts2
Enters(ts, ts2, i) == ts2[i].state = RUNNING /\ (i \notin DOMAIN ts \/ ts[i].state # RUNNING)

\* an operation ended as S: a ValueError leaves the tasks as they were
Commit(S) ==
  /\ tm_tasks' = S.tasks
  /\ starts' = [i \in DOMAIN starts |->
                  IF Enters(tm_tasks, S.tasks, i) THEN starts[i] + 1 ELSE starts[i]]
  /\ expired' = {i \in expired : S.tasks[i].started_at # None
                                  /\ ~Enters(tm_tasks, S.tasks, i)}
  /\ UNCHANGED <<state_callbacks, WorkflowVars>>

\* the tasks created with a timeout
Timed == {i \in DOMAIN tm_tasks : tm_tasks[i].timeout # None}
\* the dependency lists the caller passes: ids of tasks created, or an unknown id
DependencyLists == (SUBSET DOMAIN tm_tasks) \cup {{UnknownId}}

\* create_task(owner, timeout, dependencies), for a caller creating up to limit tasks
CreateTask(limit) ==
  /\ Len(tm_tasks) < limit
  /\ \E timeout \in {None} \cup (IF Cardinality(Timed) < MaxTimedTasks
                                 THEN {SomeTimeout} ELSE {}),
        dependencies \in DependencyLists :
       /\ tm_tasks' = Append(tm_tasks, TaskContext(timeout, dependencies))
       /\ starts' = Append(starts, 0)
       /\ sleeping' = Append(sleeping, 0)
       /\ asleepAtCancel' = Append(asleepAtCancel, 0)
  /\ UNCHANGED <<state_callbacks, expired, WorkflowVars>>

StartTask(task_id) ==
  /\ Commit(start_task(Op(tm_tasks), task_id))
  /\ UNCHANGED <<sleeping, asleepAtCancel>>

CompleteTask(task_id) ==
  /\ Commit(complete_task(Op(tm_tasks), task_id))
  /\ UNCHANGED <<sleeping, asleepAtCancel>>

FailTask(task_id) ==
  /\ Commit(fail_task(Op(tm_tasks), task_id))
  /\ UNCHANGED <<sleeping, asleepAtCancel>>

\* the retry_task calls asleep for a task that this operation cancels have
\* seen the task cancelled during their sleep
CancelTask(task_id) ==
  LET S == cancel_task(Op(tm_tasks), task_id)
  IN /\ Commit(S)
     /\ asleepAtCancel' =
          [j \in DOMAIN asleepAtCancel |->
             IF S.tasks[j].state = CANCELLED /\ tm_tasks[j].state # CANCELLED
             THEN sleeping[j] ELSE asleepAtCancel[j]]
     /\ UNCHANGED sleeping

\* retry_task is called and runs up to its sleep
RetryTask(task_id) ==
  LET S == retry_task(Op(tm_tasks), task_id)
  IN /\ Commit(S)
     /\ sleeping' = IF S.error = NoTMError
                     THEN [sleeping EXCEPT ![task_id] = @ + 1]
                     ELSE sleeping
     /\ UNCHANGED asleepAtCancel

\* the sleep of a retry_task is over: it calls start_task and ends as it ends.
\* The calls for one task sleep the same retry_delay: the oldest wakes first.
RetryWake(task_id) ==
  /\ task_id \in DOMAIN tm_tasks
  /\ sleeping[task_id] > 0
  /\ Commit(start_task(Op(tm_tasks), task_id))
  /\ sleeping' = [sleeping EXCEPT ![task_id] = @ - 1]
  /\ asleepAtCancel' = [asleepAtCancel EXCEPT ![task_id] = IF @ > 0 THEN @ - 1 ELSE @]

\* the callbacks registered, over all states
RECURSIVE Registered(_)
Registered(states) ==
  IF states = {} THEN 0
  ELSE LET s == CHOOSE x \in states : TRUE
       IN Len(state_callbacks[s]) + Registered(states \ {s})

\* register_state_callback(state, callback): the callback returns or raises
RegisterStateCallback(state, behaviour) ==
  /\ Registered(TaskStates) < MaxCallbacks
  /\ state_callbacks' = [state_callbacks EXCEPT ![state] = Append(@, behaviour)]
  /\ UNCHANGED <<tm_tasks, sleeping, asleepAtCancel, expired, starts, WorkflowVars>>

\* time passes: the task has been running for longer than its timeout
TimeoutElapses(task_id) ==
  /\ task_id \in DOMAIN tm_tasks
  /\ tm_tasks[task_id].timeout # None
  /\ tm_tasks[task_id].started_at # None
  /\ task_id \notin expired
  /\ expired' = expired \cup {task_id}
  /\ UNCHANGED <<tm_tasks, state_callbacks, sleeping, asleepAtCancel, starts,
                 WorkflowVars>>

\* the callers of a TaskManager without callbacks
TMNext ==
  \/ CreateTask(MaxTasks)
  \/ \E task_id \in CallerIds : StartTask(task_id)
  \/ \E task_id \in CallerIds : CompleteTask(task_id)
  \/ \E task_id \in CallerIds : FailTask(task_id)
  \/ \E task_id \in CallerIds : CancelTask(task_id)
  \/ \E task_id \in CallerIds : RetryTask(task_id)
  \/ \E task_id \in CallerIds : RetryWake(task_id)
  \/ \E task_id \in CallerIds : TimeoutElapses(task_id)

\* the callers that create chains of dependent tasks and cancel them
TMCascadeNext ==
  \/ CreateTask(MaxCascadeTasks)
  \/ \E task_id \in CallerIds : StartTask(task_id)
  \/ \E task_id \in CallerIds : CompleteTask(task_id)
  \/ \E task_id \in CallerIds : FailTask(task_id)
  \/ \E task_id \in CallerIds : CancelTask(task_id)

\* the callers of a TaskManager with state callbacks
TMCallbackNext ==
  \/ CreateTask(MaxCallbackTasks)
  \/ \E task_id \in CallerIds : StartTask(task_id)
  \/ \E task_id \in CallerIds : CompleteTask(task_id)
  \/ \E task_id \in CallerIds : FailTask(task_id)
  \/ \E task_id \in CallerIds : CancelTask(task_id)
  \/ \E state \in TaskStates, behaviour \in {"ok", "raise"} :
       RegisterStateCallback(state, behaviour)

\* the callers that register callbacks for CANCELLED and cancel tasks that
\* depend on each other
TMNotifyNext ==
  \/ CreateTask(MaxCascadeTasks)
  \/ \E task_id \in CallerIds : CancelTask(task_id)
  \/ \E behaviour \in {"ok", "raise"} : RegisterStateCallback(CANCELLED, behaviour)

(* ------------------- ParallelExecutor: values ------------------------- *)
\* how WorkflowStep.execute of one step ends: with a successful StepResult,
\* with an unsuccessful one (returned by _execute_impl, or made by execute out
\* of an Exception of _execute_impl), or with the asyncio.CancelledError of a
\* cancelled step, which "except Exception" lets through
StepOutcomes == {"ok", "fail", "cancelled"}

\* no execute_workflow call was made on the ParallelExecutor yet
PEIdle ==
  [pc |-> "idle", steps |-> <<>>, cancelled |-> FALSE, tasks |-> <<>>,
   permits |-> 0, status |-> None, error |-> None]

\* the launching loop: one task per step, in list order, until the token is
\* found cancelled; the loop does not await, so the token it reads is the one
\* the call was entered with
LaunchTasks(steps, cancelled) ==
  IF cancelled THEN <<>> ELSE [i \in 1..Len(steps) |-> "waiting"]

\* what asyncio.gather(*tasks, return_exceptions=True) hands back: per launched
\* task, in launch order, the StepResult or the exception object
GatherResults(steps, launched) == [i \in 1..Len(launched) |-> steps[i]]

\* isinstance(result, Exception): asyncio.CancelledError derives from
\* BaseException, and execute lets no Exception out
IsException(result) == result \notin StepOutcomes

\* the loop over the results: the first result that is an Exception or an
\* unsuccessful StepResult marks the workflow failed and ends the loop;
\* reading .success of a CancelledError object raises AttributeError
RECURSIVE ResultLoop(_, _)
ResultLoop(gathered, i) ==
  IF i > Len(gathered)
  THEN [pc |-> "returned", status |-> "completed", error |-> None]
  ELSE IF IsException(gathered[i])
       THEN [pc |-> "returned", status |-> "failed", error |-> StepOrder[i]]
       ELSE IF gathered[i] = "cancelled"
            THEN [pc |-> "raised", status |-> "running", error |-> None]
            ELSE IF gathered[i] = "fail"
                 THEN [pc |-> "returned", status |-> "failed", error |-> StepOrder[i]]
                 ELSE ResultLoop(gathered, i + 1)

(* ------------------------------ actions ------------------------------- *)
InitWith(W) ==
  /\ workflow \in W
  /\ max_parallel \in 1..MaxParallelBound
  /\ permits = max_parallel
  /\ tasks = <<>>
  /\ running_tasks = EmptyMap
  /\ graph = [error |-> NoExc, steps |-> {}, dependencies |-> EmptyMap, dependents |-> EmptyMap]
  /\ results = EmptyMap
  /\ pc = "idle"
  /\ wfstate = <<>>
  /\ given = <<>>
  /\ loaded = <<>>
  /\ rets = <<>>
  /\ store = [w \in WorkflowIds |-> NoFile]
  /\ resumeRet = "none"
  /\ firstFail = <<>>
  /\ token = FALSE
  /\ managed = <<>>
  /\ saved = [w \in WorkflowIds |-> NoState]
  /\ pe = PEIdle
  /\ TMInit

Init == InitWith(Workflows)

\* the caller submits the workflow, for the first time or again
ExecuteWorkflow ==
  /\ pc # "wait"
  /\ Cur < MaxCalls
  /\ execute_workflow(workflow, EmptyMap, NoState)
  /\ UNCHANGED <<workflow, max_parallel, resumeRet, saved, pe>>
  /\ UNCHANGED TMVars

\* WorkflowManager._get_workflow_definition as the source has it: a placeholder
PlaceholderDefinition(workflow_id) == [found |-> FALSE, steps |-> EmptyMap]
\* a lookup that finds the definition that was submitted under the id
RegisteredDefinition(workflow_id) == [found |-> TRUE, steps |-> workflow]

\* no step is filtered out
remaining_steps_all(wf, state) == wf

\* remaining_steps of resume_workflow
remaining_steps(wf, state) ==
  Restrict(wf, {s \in DOMAIN wf : s \notin DOMAIN state.completed_steps})

\* only a missing state ends the resume
NothingToResumeMissing(state) == state.status = None

\* if not state or state.status == "completed": return None
NothingToResume(state) == state.status = None \/ state.status = "completed"

resume_workflow ==
  /\ pc # "wait"
  /\ Cur < MaxCalls
  /\ UNCHANGED <<saved, pe, TMVars>>
  /\ LET state == load_state(store, WorkflowId)
     IN IF NothingToResume(state)
        THEN /\ resumeRet' = "None"
             /\ UNCHANGED <<workflow, max_parallel, permits, tasks, running_tasks, graph,
                            results, pc, wfstate, given, loaded, rets, store, firstFail,
                            token, managed>>
        ELSE \E wf \in {PlaceholderDefinition(WorkflowId), RegisteredDefinition(WorkflowId)} :
               IF ~wf.found
               THEN /\ resumeRet' = "ValueError"
                    /\ UNCHANGED <<workflow, max_parallel, permits, tasks, running_tasks,
                                   graph, results, pc, wfstate, given, loaded, rets, store,
                                   firstFail, token, managed>>
               ELSE /\ resumeRet' = "executed"
                    /\ execute_workflow(remaining_steps(wf.steps, state), state.context, state)
                    /\ UNCHANGED <<workflow, max_parallel>>

\* return_when=ALL_COMPLETED: the wait ends when every awaited task is done
AllCompleted(done, waited) == done = waited

\* asyncio.wait(..., return_when=asyncio.FIRST_COMPLETED)
FirstCompleted(done, waited) == done # {}

\* asyncio.wait returns: the scheduler processes every task that is done
SchedulerWake ==
  /\ pc = "wait"
  /\ LET done == {s \in DOMAIN running_tasks : Done(tasks[running_tasks[s]])}
     IN /\ FirstCompleted(done, DOMAIN running_tasks)
        /\ \E order \in Orders(done) :
             Advance(ProcessDone(order, graph,
                       [rt |-> running_tasks, results |-> results,
                        completed |-> wfstate[Cur].completed_steps,
                        failed |-> wfstate[Cur].failed_steps,
                        ready |-> {}, exc |-> NoExc, tasks |-> tasks]),
                     Cur, wfstate, rets, store, managed[Cur])
  /\ UNCHANGED <<workflow, max_parallel, graph, given, loaded, resumeRet, firstFail,
                 token, managed, saved, pe>>
  /\ UNCHANGED TMVars

SchedVars == <<workflow, max_parallel, running_tasks, graph, results, pc, wfstate,
               given, loaded, rets, store, resumeRet, token, managed, saved, pe, TMVars>>

\* a task waiting for the semaphore gets a slot and calls executor.execute_step
TaskAcquire(i) ==
  /\ tasks[i].status = "waiting"
  /\ ~tasks[i].cancel
  /\ CanAcquire(permits)
  /\ tasks' = [tasks EXCEPT ![i].status = "executing"]
  /\ permits' = permits - 1
  /\ UNCHANGED <<SchedVars, firstFail>>

\* two slots are given back for one
ReleaseTwice(p) == p + 2

\* the slot is not given back
ReleaseLost(p) == p

\* leaving "async with self._semaphore"
Release(p) == p + 1

\* executor.execute_step returns the step's output
TaskSucceed(i) ==
  /\ tasks[i].status = "executing"
  /\ ~tasks[i].cancel
  /\ tasks' = [tasks EXCEPT ![i].status = "ok"]
  /\ permits' = Release(permits)
  /\ UNCHANGED <<SchedVars, firstFail>>

\* executor.execute_step raises an ordinary error
TaskFail(i) ==
  /\ tasks[i].status = "executing"
  /\ ~tasks[i].cancel
  /\ tasks' = [tasks EXCEPT ![i].status = "err"]
  /\ permits' = Release(permits)
  /\ firstFail' = [firstFail EXCEPT ![tasks[i].run] =
                     IF @ = None THEN tasks[i].step ELSE @]
  /\ UNCHANGED SchedVars

\* executor.execute_step ends by CancelledError raised inside the step
TaskEndCancelled(i) ==
  /\ tasks[i].status = "executing"
  /\ ~tasks[i].cancel
  /\ tasks' = [tasks EXCEPT ![i].status = "cancelled"]
  /\ permits' = Release(permits)
  /\ UNCHANGED <<SchedVars, firstFail>>

\* task.cancel() of cancel_all reaches the task: CancelledError is thrown into it
TaskDeliverCancel(i) ==
  /\ tasks[i].cancel
  /\ tasks[i].status \in {"waiting", "executing"}
  /\ tasks' = [tasks EXCEPT ![i].status = "cancelled"]
  /\ permits' = IF tasks[i].status = "executing" THEN Release(permits) ELSE permits
  /\ UNCHANGED <<SchedVars, firstFail>>

Next ==
  \/ ExecuteWorkflow
  \/ resume_workflow
  \/ SchedulerWake
  \/ \E i \in TaskIds : TaskAcquire(i)
  \/ \E i \in TaskIds : TaskSucceed(i)
  \/ \E i \in TaskIds : TaskFail(i)
  \/ \E i \in TaskIds : TaskEndCancelled(i)
  \/ \E i \in TaskIds : TaskDeliverCancel(i)

Spec == Init /\ [][Next]_vars

\* the caller cancels the cancellation_token it passed to the running call
CancelToken ==
  /\ pc = "wait"
  /\ ~token
  /\ token' = TRUE
  /\ UNCHANGED <<workflow, max_parallel, permits, tasks, running_tasks, graph, results,
                 pc, wfstate, given, loaded, rets, store, resumeRet, firstFail, managed,
                 saved, pe, TMVars>>

\* a WorkflowState in which step A was recorded as completed earlier
CompletedBefore ==
  [NewState(EmptyMap) EXCEPT
     !.completed_steps = RecordCompleted(EmptyMap, "A", Output("A"))]
\* the WorkflowState objects a direct caller of execute_parallel hands over
CallerStates == {NewState(EmptyMap), CompletedBefore}

\* a caller calls ParallelWorkflowExecutor.execute_parallel itself, with the
\* step list and a WorkflowState of its own
ExecuteParallel ==
  /\ pc # "wait"
  /\ Cur < MaxCalls
  /\ \E state \in CallerStates : execute_parallel(workflow, state, store, NoState, FALSE)
  /\ UNCHANGED <<workflow, max_parallel, resumeRet, saved, pe, TMVars>>

CallerNext ==
  \/ Next
  \/ CancelToken
  \/ ExecuteParallel

\* the scheduler under callers that cancel the token of a running call and
\* callers that call execute_parallel directly
CallerSpec == InitWith(CallerWorkflows) /\ [][CallerNext]_vars

\* the WorkflowState objects a user of the store saves
StoreStates ==
  {[NewState(EmptyMap) EXCEPT !.workflow_id = id, !.status = status, !.end_time = end,
                              !.completed_steps = completed, !.failed_steps = failed] :
     id \in WorkflowIds,
     status \in {"running", "completed", "failed"},
     end \in {None, Datetime},
     completed \in {EmptyMap, RecordCompleted(EmptyMap, "A", Output("A"))},
     failed \in {EmptyMap, RecordFailed(EmptyMap, "B", StepError("B"))}}

\* a user of the store calls WorkflowStateStore.save_state(state)
SaveState(state) ==
  /\ store' = save_state(store, state)
  /\ saved' = [saved EXCEPT ![state.workflow_id] = state]
  /\ UNCHANGED <<workflow, max_parallel, permits, tasks, running_tasks, graph, results,
                 pc, wfstate, given, loaded, rets, resumeRet, firstFail, token, managed,
                 TMVars, pe>>

StoreNext == \E state \in StoreStates : SaveState(state)

\* the WorkflowStateStore alone, under every sequence of saves
StoreSpec == InitWith({WfChain}) /\ [][StoreNext]_vars

\* the TaskManager alone, under every sequence of operations of its callers
TMSpec == InitWith({WfChain}) /\ [][TMNext]_vars

\* the TaskManager with chains of dependent tasks
TMCascadeSpec == InitWith({WfChain}) /\ [][TMCascadeNext]_vars

\* the TaskManager with state callbacks registered
TMCallbackSpec == InitWith({WfChain}) /\ [][TMCallbackNext]_vars

\* the TaskManager with CANCELLED callbacks and tasks depending on each other
TMNotifySpec == InitWith({WfChain}) /\ [][TMNotifyNext]_vars

\* The event loop resumes the scheduler once a task it waits for is done and
\* hands a free semaphore slot to a waiting task; a step execution that is not
\* going to fail or to be cancelled returns.
LiveSpec ==
  /\ InitWith(LiveWorkflows)
  /\ [][Next]_vars
  /\ WF_vars(SchedulerWake)
  /\ WF_vars(\E i \in TaskIds : TaskAcquire(i))
  /\ WF_vars(\E i \in TaskIds : TaskSucceed(i))

(* ============================== claims ================================ *)
\* the call of execute_workflow that launched task i
RunOf(i) == tasks[i].run
\* the dependencies task i's step declares in the step list of its call
DepsOf(i) == given[RunOf(i)][tasks[i].step]
\* task i is handed to the StepExecutor in this step
Dispatch(i) == tasks[i].status # "executing" /\ tasks'[i].status = "executing"
\* the call r ended because execute_parallel processed a failed step
AbortedByStep(r) == rets[r].kind = "raise" /\ rets[r].error.type = "RuntimeError"

C2_ConcurrencyBound == Cardinality(Executing) <= max_parallel

C2_Witness ==
  /\ Cardinality(Executing) = max_parallel
  /\ \E i \in TaskIds : tasks[i].status = "waiting"

C4_RaisesFirstFailure ==
  \A r \in 1..Cur :
    AbortedByStep(r) /\ firstFail[r] # None =>
      /\ rets[r].error = StepError(firstFail[r])
      /\ firstFail[r] \in DOMAIN wfstate[r].failed_steps
      /\ rets[r].results = EmptyMap

\* C4: the call aborted by a step failure raises the error of a step whose
\* execution failed, the first failed step in the order in which the scheduler
\* processes the finished tasks; that step, and no other, is recorded in
\* failed_steps with this error, and no result map is returned.
C4_RaisesProcessedFailure ==
  \A r \in 1..Cur :
    AbortedByStep(r) =>
      LET s == rets[r].error.step
      IN /\ \E i \in TaskIds : tasks[i].step = s /\ tasks[i].status = "err"
         /\ DOMAIN wfstate[r].failed_steps = {s}
         /\ wfstate[r].failed_steps[s].error = Str(StepError(s))
         /\ rets[r].results = EmptyMap

\* two steps failed before the scheduler woke up, and the call raised the error
\* of the one that failed second
C4_Witness ==
  \E r \in 1..Cur :
    /\ AbortedByStep(r) /\ firstFail[r] # None
    /\ rets[r].error.step # firstFail[r]
    /\ \E i \in TaskIds : RunOf(i) = r /\ tasks[i].step = rets[r].error.step
                          /\ tasks[i].status = "err"

\* C5: when the call aborts on a step failure, completed_steps holds every step
\* of the call whose execution finished successfully and failed_steps every
\* step whose execution failed.
C5_StateReflectsOutcome ==
  \A r \in 1..Cur :
    AbortedByStep(r) =>
      \A i \in TaskIds :
        RunOf(i) = r =>
          /\ tasks[i].status = "ok" => tasks[i].step \in DOMAIN wfstate[r].completed_steps
          /\ tasks[i].status = "err" => tasks[i].step \in DOMAIN wfstate[r].failed_steps

\* some step execution raised or was cancelled
SomeStepFailed == \E i \in TaskIds : tasks[i].status \in {"err", "cancelled"}
\* the current call has returned one output per step of the list it was given
ReturnedAll ==
  /\ pc = "ended"
  /\ rets[Cur] = Returned([s \in DOMAIN given[Cur] |-> Output(s)])

\* C6: for an acyclic workflow whose dependencies are all declared steps, a call
\* in which no step execution fails eventually returns the map holding the
\* output of every step of the list.
C6_EventuallyReturnsAll ==
  (pc = "wait" /\ Acyclic(workflow) /\ DeclaredDeps(workflow))
    ~> (SomeStepFailed \/ ReturnedAll)

\* B and C ready at once and one slot: the call returned all four outputs
C6_Witness ==
  /\ workflow = WfDiamond /\ max_parallel = 1
  /\ ~SomeStepFailed
  /\ ReturnedAll

\* C7: a call given a cyclic dependency graph ends by reporting a
\* CyclicDependency error.
C7_CycleReported ==
  \A r \in 1..Cur :
    rets[r].kind # "none" /\ DeclaredDeps(given[r]) /\ ~Acyclic(given[r]) =>
      rets[r].kind = "raise" /\ rets[r].error.type = "CyclicDependency"

\* the call r was made by resume_workflow
Resumed(r) == loaded[r].status # None
\* the map step -> output held by a completed_steps record
ResultsOf(completed) == [s \in DOMAIN completed |-> completed[s].result]
\* the result of running the full workflow once without failure
FullResults == [s \in DOMAIN workflow |-> Output(s)]

C10_CompletedStaysPersisted ==
  [][store[WorkflowId].status # "NotFound"
     => DOMAIN store[WorkflowId].completed_steps
          \subseteq DOMAIN store'[WorkflowId].completed_steps]_vars

\* the call r has ended, by return or by an exception
Ended(r) == rets[r].kind # "none"
\* the call r ended by the CancelledError of a step execution
EndedByCancellation(r) == rets[r].kind = "raise" /\ rets[r].error = CancelledError

\* C11: a call of execute_workflow that has ended, by return, by step error or
\* by cancellation, has left a terminal status, in memory and in the file.
C11_TerminalStatus ==
  /\ \A r \in 1..Cur :
       Ended(r) => wfstate[r].status \in {"completed", "failed", "cancelled"}
  /\ Cur > 0 /\ Ended(Cur) =>
       store[WorkflowId].status \in {"completed", "failed", "cancelled"}

\* C12: when a call has ended by return or by step error, the file of the
\* workflow id holds the serialised final state of the run: same status, same
\* completed_steps, same failed_steps.
C12_PersistedIsFinal ==
  Cur > 0 /\ (rets[Cur].kind = "return" \/ AbortedByStep(Cur)) =>
    LET doc == store[WorkflowId]
        final == ToJson(wfstate[Cur])
    IN /\ doc.status = final.status
       /\ doc.completed_steps = final.completed_steps
       /\ doc.failed_steps = final.failed_steps

\* a call aborted by a step failure after another step had completed
C12_Witness ==
  /\ Cur > 0 /\ AbortedByStep(Cur)
  /\ DOMAIN wfstate[Cur].completed_steps # {}
  /\ DOMAIN store[WorkflowId].failed_steps # {}

\* C13: while a call is running, every step recorded as completed so far is
\* already in the completed_steps of the file.
C13_HistoryPersisted ==
  pc = "wait" =>
    DOMAIN wfstate[Cur].completed_steps \subseteq DOMAIN store[WorkflowId].completed_steps

\* C20: a call that ends by the cancellation of a step execution has recorded
\* a step in failed_steps, has cancelled every execution of the call that is
\* not done, and has handed the error to the caller through the failure path
\* of execute_workflow (status failed).
C20_CancellationIsFailure ==
  \A r \in 1..Cur :
    EndedByCancellation(r) =>
      /\ DOMAIN wfstate[r].failed_steps # {}
      /\ \A i \in TaskIds : RunOf(i) = r => Done(tasks[i]) \/ tasks[i].cancel
      /\ wfstate[r].status = "failed"

(* ----------------------- claims on the TaskManager --------------------- *)
\* the transitions of the state machine Pending -> Running -> terminal, with
\* Failed and TimedOut going back to Pending
AllowedTransition(a, b) ==
  \/ a = b
  \/ a = PENDING /\ b = RUNNING
  \/ a = RUNNING /\ b \in {COMPLETED, FAILED, CANCELLED, TIMEOUT}
  \/ a \in {FAILED, TIMEOUT} /\ b = PENDING

\* C14: the state of a TaskContext changes only along Pending -> Running,
\* Running -> Completed, Failed, Cancelled or TimedOut, and Failed or TimedOut
\* -> Pending.
C14_StateMachine ==
  [][\A i \in DOMAIN tm_tasks :
       AllowedTransition(tm_tasks[i].state, tm_tasks'[i].state)]_vars

\* start_task would move the task to RUNNING
Startable(ts, i) ==
  /\ ts[i].state = PENDING
  /\ \A dep_id \in ts[i].dependencies : dep_id \in DOMAIN ts /\ ts[dep_id].state = COMPLETED

\* C15: a task enters Running only from Pending with every dependency
\* Completed; start_task of such a task succeeds; start_task of a task that is
\* not Pending raises "not in PENDING state", of a Pending task with a missing
\* or not Completed dependency "Dependency not satisfied", and both leave the
\* tasks as they were and invoke no callback.
C15_StartTask ==
  [][\A i \in DOMAIN tm_tasks :
       LET S == start_task(Op(tm_tasks), i)
       IN /\ Enters(tm_tasks, tm_tasks', i) => Startable(tm_tasks, i)
          /\ Startable(tm_tasks, i) =>
               S.error = NoTMError /\ S.tasks[i].state = RUNNING
          /\ tm_tasks[i].state # PENDING =>
               S.error = NotPending /\ S.tasks = tm_tasks /\ S.log = <<>>
          /\ tm_tasks[i].state = PENDING /\ ~Startable(tm_tasks, i) =>
               S.error = NotSatisfied /\ S.tasks = tm_tasks /\ S.log = <<>>]_vars

\* a task running after its dependency completed, beside a pending task that
\* must not start, with a callback registered for RUNNING
C15_Witness ==
  /\ state_callbacks[RUNNING] # <<>>
  /\ \E i, j \in DOMAIN tm_tasks :
       /\ tm_tasks[j].dependencies = {i}
       /\ tm_tasks[i].state = RUNNING /\ tm_tasks[i].dependencies = {}
       /\ tm_tasks[j].state = PENDING

\* task j depends on task_id, directly or through other tasks
RECURSIVE DependsOn(_, _, _)
DependsOn(ts, j, task_id) ==
  \/ task_id \in ts[j].dependencies
  \/ \E d \in ts[j].dependencies \cap DOMAIN ts : DependsOn(ts, d, task_id)

\* C16: when cancel_task(id) has run, id and every task depending on id,
\* directly or transitively, are Cancelled with their tokens cancelled, and
\* every other task is as it was.
C16_CancelCascade ==
  [][\A task_id \in DOMAIN tm_tasks :
       CancelTask(task_id) =>
         \A j \in DOMAIN tm_tasks :
           IF j = task_id \/ DependsOn(tm_tasks, j, task_id)
           THEN tm_tasks'[j].state = CANCELLED /\ tm_tasks'[j].token
           ELSE tm_tasks'[j] = tm_tasks[j]]_vars

\* a chain of three tasks cancelled, the last one without ever having started,
\* the first one after it had completed
C16_Witness ==
  /\ Len(tm_tasks) = 3
  /\ tm_tasks[2].dependencies = {1} /\ tm_tasks[3].dependencies = {2}
  /\ \A j \in 1..3 : tm_tasks[j].state = CANCELLED /\ tm_tasks[j].token
  /\ tm_tasks[3].started_at = None

\* C17: a task enters Running at most max_retries + 1 times, its retries
\* counter never exceeds max_retries, and retry_task at retries = max_retries
\* raises "exceeded retry limit" and changes nothing.
C17_RetryBound ==
  \A i \in DOMAIN tm_tasks :
    /\ starts[i] <= tm_tasks[i].max_retries + 1
    /\ tm_tasks[i].retries <= tm_tasks[i].max_retries
    /\ tm_tasks[i].retries = tm_tasks[i].max_retries =>
         LET S == retry_task(Op(tm_tasks), i)
         IN S.error = RetryLimit /\ S.tasks = tm_tasks

\* a task that used all its retries and entered Running max_retries + 1 times
C17_Witness ==
  \E i \in DOMAIN tm_tasks :
    /\ tm_tasks[i].retries = tm_tasks[i].max_retries
    /\ starts[i] = tm_tasks[i].max_retries + 1

\* every callback registered for the state was invoked for the task
AllNotified(S, task_id, state) ==
  \A k \in 1..Len(state_callbacks[state]) :
    \E n \in 1..Len(S.log) : S.log[n] = <<task_id, state, k>>

\* C18: with callbacks that raise, start_task, complete_task, fail_task and
\* cancel_task still make their transition, return normally and invoke every
\* callback registered for the state, and cancel_task still cancels the
\* dependents.
C18_CallbackErrorsSwallowed ==
  \A i \in DOMAIN tm_tasks :
    /\ Startable(tm_tasks, i) =>
         LET S == start_task(Op(tm_tasks), i)
         IN S.error = NoTMError /\ S.tasks[i].state = RUNNING /\ AllNotified(S, i, RUNNING)
    /\ LET S == complete_task(Op(tm_tasks), i)
       IN S.error = NoTMError /\ S.tasks[i].state = COMPLETED /\ AllNotified(S, i, COMPLETED)
    /\ LET S == fail_task(Op(tm_tasks), i)
       IN S.error = NoTMError /\ S.tasks[i].state = FAILED /\ AllNotified(S, i, FAILED)
    /\ LET S == cancel_task(Op(tm_tasks), i)
       IN /\ S.error = NoTMError
          /\ \A j \in DOMAIN tm_tasks :
               j = i \/ DependsOn(tm_tasks, j, i) =>
                 S.tasks[j].state = CANCELLED /\ AllNotified(S, j, CANCELLED)

\* a raising callback registered before another one for CANCELLED, and a task
\* cancelled together with its dependent
C18_Witness ==
  /\ state_callbacks[CANCELLED] = <<"raise", "ok">>
  /\ Len(tm_tasks) = 2
  /\ tm_tasks[2].dependencies = {1}
  /\ tm_tasks[1].state = CANCELLED /\ tm_tasks[2].state = CANCELLED
  /\ tm_tasks[2].started_at = None

\* C19: a running task that has exceeded its timeout leaves Running only to
\* become TimedOut.
C19_TimeoutIsFailure ==
  [][\A i \in DOMAIN tm_tasks :
       is_timed_out(tm_tasks, i) /\ tm_tasks[i].state = RUNNING =>
         tm_tasks'[i].state \in {RUNNING, TIMEOUT}]_vars

\* C28: for a step list whose dependencies are all declared, the graph that
\* build_dependency_graph returns has one key per step in both maps, keeps the
\* declared dependencies, and t is in dependents[s] exactly when s is in
\* dependencies[t].
C28_DependentsReverse ==
  Cur > 0 /\ graph.error = NoExc =>
    /\ graph.dependencies = given[Cur]
    /\ DOMAIN graph.dependents = DOMAIN given[Cur]
    /\ \A s, t \in DOMAIN given[Cur] :
         t \in graph.dependents[s] <=> s \in graph.dependencies[t]

\* the diamond's graph was built: A has the two dependents B and C
C28_Witness ==
  /\ Cur > 0
  /\ graph.error = NoExc
  /\ given[Cur] = WfDiamond
  /\ graph.dependents["A"] = {"B", "C"}
  /\ graph.dependents["D"] = {}

\* the step list of call r declares a dependency that is no step of the list
UnknownDependency(r) == \E s \in DOMAIN given[r] : ~(given[r][s] \subseteq DOMAIN given[r])

Blocked(w) ==
  {s \in DOMAIN w : \E t \in Ancestors(w, s) \cup {s} : t \in Ancestors(w, t)}

C25_HandlesBounded == Cardinality(DOMAIN running_tasks) <= max_parallel

\* C25 (amended): every launched step is recorded in _running_tasks at once,
\* without a slot; a task holds exactly one slot while it is inside
\* executor.execute_step, so the free slots and the executing steps add up to
\* max_parallel, whatever the number of recorded handles.
C25_SlotsHeldWhileExecuting ==
  /\ permits \in 0..max_parallel
  /\ permits + Cardinality(Executing) = max_parallel
  /\ \A s \in DOMAIN running_tasks :
       running_tasks[s] \in TaskIds /\ tasks[running_tasks[s]].step = s

\* more handles are recorded than there are slots: the excess tasks were
\* launched and wait for the semaphore
C25_Witness ==
  /\ pc = "wait"
  /\ Cardinality(DOMAIN running_tasks) > max_parallel
  /\ permits = 0
  /\ \E s \in DOMAIN running_tasks : tasks[running_tasks[s]].status = "waiting"

\* C30: resume_workflow for a workflow id that has no persisted state, or whose
\* persisted status is completed, returns None: no call of execute_workflow
\* is made, no task is created, no result is returned and the store is left
\* as it was.
C30_NothingToResume ==
  [][store[WorkflowId].status \in {"NotFound", "completed"} /\ resumeRet' # resumeRet
       => /\ resumeRet' = "None"
          /\ tasks' = tasks
          /\ Cur' = Cur
          /\ rets' = rets
          /\ store' = store]_vars

\* a completed workflow was resumed and the resume returned None
C30_Witness ==
  /\ resumeRet = "None"
  /\ Cur = 1
  /\ rets[1].kind = "return"
  /\ store[WorkflowId].status = "completed"

\* C29: retry_task moves a task back to PENDING only if the task is FAILED or
\* TIMEOUT; on a task in any other state it is rejected and leaves the task's
\* state and its retries counter unchanged.
C29_RetryOnlyFailed ==
  [][\A i \in DOMAIN tm_tasks :
       tm_tasks[i].state \notin {FAILED, TIMEOUT} =>
         /\ tm_tasks'[i].retries = tm_tasks[i].retries
         /\ (tm_tasks'[i].state = PENDING => tm_tasks[i].state = PENDING)]_vars

\* C21: once the caller has cancelled the cancellation token of the running
\* call, the scheduler launches no further task and no step enters the
\* StepExecutor.
C21_NoDispatchAfterCancel ==
  [][token /\ pc = "wait" =>
       /\ Len(tasks') = Len(tasks)
       /\ \A i \in TaskIds : ~Dispatch(i)]_vars

\* C26: the scheduler waits for the first completion, not for all: while it is
\* suspended it can resume as soon as one awaited task is done, and at every
\* suspension each step whose dependencies have all completed has been
\* dispatched (it is in flight or completed), whatever else is in flight.
C26_FirstCompletion ==
  pc = "wait" =>
    /\ (\E s \in DOMAIN running_tasks : Done(tasks[running_tasks[s]]))
          => ENABLED SchedulerWake
    /\ \A s \in graph.steps :
         graph.dependencies[s] \subseteq DOMAIN results
           => s \in DOMAIN results \cup DOMAIN running_tasks

\* C was dispatched on the completion of A while B, dispatched before it, is
\* still executing
C26_Witness ==
  /\ pc = "wait"
  /\ given[Cur] = WfFork
  /\ \E i, j \in TaskIds :
       /\ i < j
       /\ RunOf(i) = Cur /\ RunOf(j) = Cur
       /\ tasks[i].step = "B" /\ tasks[i].status = "executing"
       /\ tasks[j].step = "C" /\ tasks[j].status = "executing"

\* C27: at each iteration of the scheduler loop the ready set, which is the
\* set of steps the iteration launches, is exactly the set of steps of the
\* call not dispatched before whose dependencies are all keys of the call's
\* WorkflowState.completed_steps, also when the call was given a WorkflowState
\* with completed steps.
C27_ReadySet ==
  [][(Cur' # Cur \/ running_tasks' # running_tasks)
       /\ (pc' = "wait" \/ rets'[Cur'].kind = "return")
     => LET launched == {tasks'[i].step : i \in (DOMAIN tasks') \ (DOMAIN tasks)}
            before == {tasks[i].step : i \in {j \in TaskIds : RunOf(j) = Cur'}}
            completed == DOMAIN wfstate'[Cur'].completed_steps
        IN launched = {s \in DOMAIN given'[Cur'] :
                         s \notin before /\ given'[Cur'][s] \subseteq completed}]_vars

\* C22: load_state(id) returns a WorkflowState equal field by field to the one
\* last saved under id, whatever was saved under the other ids, and not-found
\* (None) for an id that was never saved.
C22_LoadReturnsSaved ==
  \A id \in WorkflowIds : load_state(store, id) = saved[id]

\* C31: within one call of execute_parallel no step is handed to the
\* StepExecutor twice: no two tasks of the same call that entered
\* executor.execute_step carry the same step.
C31_DispatchedOnce ==
  \A i, j \in TaskIds :
    /\ i # j
    /\ RunOf(i) = RunOf(j)
    /\ tasks[i].status \in {"executing", "ok", "err"}
    /\ tasks[j].status \in {"executing", "ok", "err"}
    => tasks[i].step # tasks[j].step

\* C33: a call returns normally only if every step of the list it was given
\* has an entry in the returned map, and the workflow is marked completed only
\* then, for cyclic dependency graphs too.
C33_ReturnsOnlyComplete ==
  \A r \in 1..Cur :
    rets[r].kind = "return" \/ wfstate[r].status = "completed"
      => DOMAIN given[r] \subseteq DOMAIN rets[r].results

\* C34: when execute_parallel has ended, by return, by a failed step or by the
\* cancellation of a step, _running_tasks is empty.
C34_NothingLeftInFlight ==
  pc = "ended" => DOMAIN running_tasks = {}

\* C32: between the failure of a step execution and the moment the call
\* raises, no task of that call enters executor.execute_step: a task waiting
\* for the semaphore does not take the slot the failed step released.
C32_NoStartAfterFailure ==
  [][\A i \in TaskIds :
       Dispatch(i) =>
         ~\E j \in TaskIds : /\ RunOf(j) = RunOf(i)
                              /\ tasks[j].status = "err"
                              /\ rets[RunOf(j)].kind = "none"]_vars

\* C35: a TaskContext that is COMPLETED or CANCELLED keeps its state under
\* every later complete_task, fail_task and cancel_task, a cancellation that
\* cascades from one of its dependencies included.
C35_TerminalStateKept ==
  [][\A i \in DOMAIN tm_tasks :
       tm_tasks[i].state \in {COMPLETED, CANCELLED}
         => tm_tasks'[i].state = tm_tasks[i].state]_vars

\* C38: during one cancel_task(id) every callback registered for CANCELLED is
\* invoked exactly once for id and for each task that depends on id, directly
\* or through other tasks, and for no other task, also when a task depends on
\* id through several paths.
C38_NotifiedOnce ==
  \A task_id \in DOMAIN tm_tasks :
    LET S == cancel_task(Op(tm_tasks), task_id)
    IN \A j \in DOMAIN tm_tasks, k \in 1..Len(state_callbacks[CANCELLED]) :
         Cardinality({n \in 1..Len(S.log) : S.log[n] = <<j, CANCELLED, k>>})
           = IF j = task_id \/ DependsOn(tm_tasks, j, task_id) THEN 1 ELSE 0

\* C36: a retry_task whose sleep saw the task cancelled does not restart it:
\* when that call wakes up and finishes, the task does not enter RUNNING.
C36_CancelledNotRestarted ==
  [][\A j \in DOMAIN tm_tasks :
       sleeping'[j] < sleeping[j] /\ asleepAtCancel[j] > 0
         => tm_tasks'[j].state # RUNNING]_vars

(* ------------------- ParallelExecutor: actions ------------------------ *)
\* what the ParallelExecutor leaves alone
PEOthers ==
  <<workflow, max_parallel, permits, tasks, running_tasks, graph, results, pc, wfstate,
    given, loaded, rets, store, resumeRet, firstFail, token, managed, saved, TMVars>>

\* a caller calls ParallelExecutor.execute_workflow with a list of steps and a
\* cancellation token: the state is created and the tasks are launched
PEExecuteWorkflow ==
  /\ pe.pc # "gather"
  /\ \E n \in 0..MaxSteps, cancelled \in BOOLEAN :
       \E steps \in [1..n -> StepOutcomes] :
         pe' = [pc |-> "gather", steps |-> steps, cancelled |-> cancelled,
                tasks |-> LaunchTasks(steps, cancelled), permits |-> max_parallel,
                status |-> "running", error |-> None]
  /\ UNCHANGED PEOthers

\* execute_step of step i enters "async with semaphore" and calls step.execute
PEAcquire(i) ==
  /\ pe.pc = "gather"
  /\ i \in DOMAIN pe.tasks
  /\ pe.tasks[i] = "waiting"
  /\ pe.permits > 0
  /\ pe' = [pe EXCEPT !.tasks[i] = "executing", !.permits = @ - 1]
  /\ UNCHANGED PEOthers

\* step.execute of step i ends and execute_step leaves the semaphore
PEStepEnds(i) ==
  /\ pe.pc = "gather"
  /\ i \in DOMAIN pe.tasks
  /\ pe.tasks[i] = "executing"
  /\ pe' = [pe EXCEPT !.tasks[i] = "done", !.permits = @ + 1]
  /\ UNCHANGED PEOthers

\* every launched task is done: gather returns, the results are looked at in
\* list order, the status is set and the state is returned
PEGather ==
  /\ pe.pc = "gather"
  /\ \A i \in DOMAIN pe.tasks : pe.tasks[i] = "done"
  /\ LET end == ResultLoop(GatherResults(pe.steps, pe.tasks), 1)
     IN pe' = [pe EXCEPT !.pc = end.pc, !.status = end.status, !.error = end.error]
  /\ UNCHANGED PEOthers

PENext ==
  \/ PEExecuteWorkflow
  \/ \E i \in 1..MaxSteps : PEAcquire(i)
  \/ \E i \in 1..MaxSteps : PEStepEnds(i)
  \/ PEGather

\* the callers of ParallelExecutor.execute_workflow
PESpec == InitWith({WfChain}) /\ [][PENext]_vars

\* C37: execute_workflow of the ParallelExecutor returns status "completed"
\* only if every step of the list was executed and returned a successful
\* result, a token cancelled before the steps are launched included; every
\* other return has status "failed" and the error of the first failing step
\* in list order.
C37_CompletedOnlyIfAllSucceeded ==
  pe.pc = "returned" =>
    LET failing == {i \in DOMAIN pe.steps : pe.steps[i] # "ok"}
    IN IF failing = {}
       THEN /\ pe.status = "completed"
            /\ Len(pe.tasks) = Len(pe.steps)
       ELSE /\ pe.status = "failed"
            /\ pe.error = StepOrder[CHOOSE i \in failing : \A j \in failing : i <= j]

====
